---- MODULE Spec2Model ----
(***************************************************************************)
(* Incremental author disambiguation: the in-memory author repository with *)
(* its blocking indexes (AuthorDatabase), the three-way decision engine    *)
(* (AuthorMerger.make_decision) with its scorer, and the decision trace    *)
(* logger.                                                                 *)
(*                                                                         *)
(* Strings are sequences of one-character strings, so that split, lower,   *)
(* slicing and the edit distance are computed as the code computes them.   *)
(* Similarities are exact fractions of SimOne (the float 1.0); baseline    *)
(* scores are in units of 1/(10*SimOne), Fellegi-Sunter scores in 1/1000.  *)
(***************************************************************************)
EXTENDS Integers, Sequences, FiniteSets, TLC

VARIABLES
    authors,                \* AuthorDatabase.authors: list of author references
    surname_index,          \* surname -> list of author references
    surname_initial_index,  \* surname_initial -> list of author references
    orcid_index,            \* orcid -> author reference
    id_index,               \* author_id -> Author object (the object store)
    blocking_key_index,     \* blocking key -> list of author references
    engine,                 \* AuthorMerger configuration fixed at construction
    trace,                  \* lines of the main trace file
    review,                 \* lines of the review queue file
    result                  \* what the last operation returned

vars == <<authors, surname_index, surname_initial_index, orcid_index, id_index,
          blocking_key_index, engine, trace, review, result>>

repo == <<authors, surname_index, surname_initial_index, orcid_index, id_index,
          blocking_key_index>>

-----------------------------------------------------------------------------
(* Bounds *)

MaxAuthors == 2

MaxTrace == 1

\* decisions logged in the specification of the trace logger
MaxLogged == 2

-----------------------------------------------------------------------------
(* Strings *)

EmptyStr == <<>>

Min(a, b) == IF a < b THEN a ELSE b

Max(a, b) == IF a > b THEN a ELSE b

LowerChar(c) ==
    CASE c = "J" -> "j"
      [] c = "A" -> "a"
      [] c = "S" -> "s"
      [] c = "T" -> "t"
      [] c = "M" -> "m"
      [] c = "H" -> "h"
      [] c = "N" -> "n"
      [] c = "C" -> "c"
      [] OTHER -> c

UpperChar(c) ==
    CASE c = "j" -> "J"
      [] c = "a" -> "A"
      [] c = "s" -> "S"
      [] c = "t" -> "T"
      [] OTHER -> c

Lower(s) == [i \in 1..Len(s) |-> LowerChar(s[i])]

Prefix(s, n) == SubSeq(s, 1, Min(n, Len(s)))

RECURSIVE SplitAcc(_, _, _)
SplitAcc(s, cur, acc) ==
    IF s = <<>>
    THEN IF cur = <<>> THEN acc ELSE Append(acc, cur)
    ELSE IF Head(s) = " "
         THEN SplitAcc(Tail(s), <<>>, IF cur = <<>> THEN acc ELSE Append(acc, cur))
         ELSE SplitAcc(Tail(s), Append(cur, Head(s)), acc)

Split(s) == SplitAcc(s, <<>>, <<>>)

RECURSIVE Join(_)
Join(tokens) ==
    IF tokens = <<>> THEN <<>>
    ELSE IF Len(tokens) = 1 THEN tokens[1]
    ELSE tokens[1] \o <<" ">> \o Join(Tail(tokens))

Strip(s) ==
    LET nonblank == {i \in 1..Len(s) : s[i] # " "}
    IN  IF nonblank = {} THEN <<>>
        ELSE SubSeq(s, CHOOSE i \in nonblank : \A j \in nonblank : i <= j,
                       CHOOSE i \in nonblank : \A j \in nonblank : i >= j)

ReplaceSpace(s) == [i \in 1..Len(s) |-> IF s[i] = " " THEN "_" ELSE s[i]]

Punctuation == {".", ",", "-", "'"}

RemovePunctuation(s) == SelectSeq(s, LAMBDA c : c \notin Punctuation)

-----------------------------------------------------------------------------
(* Dictionaries and lists *)

DictGet(d, k, default) == IF k \in DOMAIN d THEN d[k] ELSE default

DictPut(d, k, v) == [x \in DOMAIN d \cup {k} |-> IF x = k THEN v ELSE d[x]]

EmptyDict == [x \in {} |-> <<>>]

DictDel(d, k) == [x \in DOMAIN d \ {k} |-> d[x]]

Range(s) == {s[i] : i \in 1..Len(s)}

RECURSIVE AppendAll(_, _, _)
AppendAll(d, keys, ref) ==
    IF keys = <<>> THEN d
    ELSE AppendAll(DictPut(d, Head(keys), Append(DictGet(d, Head(keys), <<>>), ref)),
                   Tail(keys), ref)

RECURSIVE SetToSeq(_)
SetToSeq(S) ==
    IF S = {} THEN <<>>
    ELSE LET x == CHOOSE y \in S : TRUE IN <<x>> \o SetToSeq(S \ {x})

RECURSIVE SortedIds(_)
SortedIds(S) ==
    IF S = {} THEN <<>>
    ELSE LET m == CHOOSE x \in S : \A y \in S : x <= y
         IN  <<m>> \o SortedIds(S \ {m})

-----------------------------------------------------------------------------
(* Inputs: mentions (also used as author_data) and legacy author records *)

NoOrcid == <<>>

OrcidX == <<"0", "X">>

NameJS == <<"J", " ", "S">>

NameAS == <<"A", " ", "S">>

NameT == <<"T">>

NameBlank == <<" ">>

MentionJS ==
    [name |-> NameJS, orcid |-> OrcidX, coauthors |-> << <<"x">> >>,
     journals |-> << <<"N">> >>, affiliation |-> << <<"H">> >>]

MentionT ==
    [name |-> NameT, orcid |-> OrcidX, coauthors |-> <<>>,
     journals |-> << <<"N">> >>, affiliation |-> <<>>]

MentionJSPlain ==
    [name |-> NameJS, orcid |-> NoOrcid, coauthors |-> <<>>,
     journals |-> << <<"N">> >>, affiliation |-> <<>>]

MentionAS ==
    [name |-> NameAS, orcid |-> NoOrcid, coauthors |-> << <<"x">> >>,
     journals |-> << <<"C">> >>, affiliation |-> << <<"H">> >>]

\* a one-token name without upper-case letters (as every name of a script
\* without case is): str.lower leaves it as it is
NameLower == <<"w">>

MentionLower ==
    [name |-> NameLower, orcid |-> NoOrcid, coauthors |-> <<>>,
     journals |-> << <<"N">> >>, affiliation |-> <<>>]

MentionEmpty ==
    [name |-> EmptyStr, orcid |-> NoOrcid, coauthors |-> <<>>,
     journals |-> <<>>, affiliation |-> <<>>]

MentionBlank ==
    [name |-> NameBlank, orcid |-> OrcidX, coauthors |-> <<>>,
     journals |-> << <<"N">> >>, affiliation |-> <<>>]

Mentions == {MentionJS, MentionT, MentionJSPlain, MentionAS, MentionEmpty, MentionBlank}

AuthorData == {MentionJS, MentionAS}

NoValue == <<>>

Records ==
    {[record_id |-> "R1", name |-> NameAS, journal |-> <<"C">>, affiliation |-> <<"M">>]}

AuthorIds == 1..MaxAuthors

-----------------------------------------------------------------------------
(* models.author.Author *)

ConfidenceOne == 100

ConfidenceCap == 95

NewAuthor(id, name, orcid) ==
    [author_id |-> id,
     canonical_name |-> name,
     orcid |-> orcid,
     linked_records |-> {},
     alternate_names |-> IF name # EmptyStr THEN {name} ELSE {},
     coauthor_ids |-> {},
     journals |-> {},
     affiliations |-> {},
     publication_count |-> 0,
     collaboration_count |-> 0,
     confidence_score |-> ConfidenceOne]

add_alternate_name(a, name) ==
    IF name # EmptyStr /\ Strip(name) # EmptyStr
    THEN [a EXCEPT !.alternate_names = @ \cup {Strip(name)}]
    ELSE a

add_journal(a, journal) ==
    IF journal # EmptyStr THEN [a EXCEPT !.journals = @ \cup {journal}] ELSE a

add_affiliation(a, affiliation) ==
    IF affiliation # EmptyStr THEN [a EXCEPT !.affiliations = @ \cup {affiliation}] ELSE a

merge_with_record(a, record) ==
    LET a1 == [a EXCEPT !.linked_records = @ \cup {record.record_id}]
        a2 == add_alternate_name(a1, record.name)
        a3 == IF record.journal # NoValue THEN add_journal(a2, record.journal) ELSE a2
        a4 == IF record.affiliation # NoValue
              THEN add_affiliation(a3, record.affiliation) ELSE a3
    IN  IF Cardinality(a4.linked_records) > 1
        THEN [a4 EXCEPT !.confidence_score = Min(@, ConfidenceCap)]
        ELSE a4

-----------------------------------------------------------------------------
(* models.database.AuthorDatabase: key extraction *)

AffilPrefixLen == 30

JournalPrefixLen == 30

MaxAffilKeys == 2

MaxJournalKeys == 3

extract_surname(full_name) ==
    IF full_name = EmptyStr THEN EmptyStr
    ELSE LET parts == Split(Strip(full_name))
         IN  IF parts = <<>> THEN EmptyStr ELSE parts[Len(parts)]

extract_surname_initial(full_name) ==
    IF full_name = EmptyStr THEN EmptyStr
    ELSE LET parts == Split(Strip(full_name))
         IN  IF parts = <<>> THEN EmptyStr
             ELSE IF Len(parts) = 1 THEN Lower(parts[1])
             ELSE LET surname == Lower(parts[Len(parts)])
                      first_initial == Lower(Prefix(parts[1], 1))
                  IN  IF first_initial # EmptyStr
                      THEN surname \o <<"_">> \o first_initial
                      ELSE surname

\* list(some_set)[:n]: the iteration order of a set of strings is arbitrary,
\* so any n elements may come first.
FirstOfSet(S, n) ==
    IF Cardinality(S) <= n THEN {S} ELSE {T \in SUBSET S : Cardinality(T) = n}

AffilKey(affiliation) ==
    <<"affil:">> \o Prefix(ReplaceSpace(Lower(affiliation)), AffilPrefixLen)

JournalKey(journal) ==
    <<"journal:">> \o Prefix(ReplaceSpace(Lower(journal)), JournalPrefixLen)

generate_blocking_keys(author, affs, jrnls) ==
    (IF author.orcid # NoOrcid THEN << <<"orcid:">> \o author.orcid >> ELSE <<>>)
    \o (IF extract_surname(author.canonical_name) # EmptyStr
        THEN << <<"surname:">> \o Lower(extract_surname(author.canonical_name)) >>
        ELSE <<>>)
    \o (IF extract_surname_initial(author.canonical_name) # EmptyStr
        THEN << <<"surname_init:">> \o extract_surname_initial(author.canonical_name) >>
        ELSE <<>>)
    \o SetToSeq({AffilKey(x) : x \in {y \in affs : y # EmptyStr}})
    \o SetToSeq({JournalKey(x) : x \in {y \in jrnls : y # EmptyStr}})

-----------------------------------------------------------------------------
(* models.database.AuthorDatabase: operations *)

AffilCandidateLimit == 20

DefaultMaxCandidates == 100

\* the Author that add_author builds from author_data before indexing it
AuthorFromData(id, author_data) ==
    LET a0 == NewAuthor(id, author_data.name, author_data.orcid)
        a1 == [a0 EXCEPT !.affiliations = Range(author_data.affiliation)]
        a2 == IF author_data.coauthors # <<>>
              THEN [a1 EXCEPT !.coauthor_ids = Range(author_data.coauthors),
                              !.collaboration_count =
                                  Cardinality(Range(author_data.coauthors))]
              ELSE a1
    IN  IF author_data.journals # <<>>
        THEN [a2 EXCEPT !.journals = Range(author_data.journals)]
        ELSE a2

\* author ids some Author object of the repository carries (uuid4 never
\* repeats one of them)
UsedIds ==
    DOMAIN id_index
        \cup UNION {Range(blocking_key_index[k]) : k \in DOMAIN blocking_key_index}

AddAuthor(author_data) ==
    /\ Len(authors) < MaxAuthors
    /\ \E id \in AuthorIds \ UsedIds :
         LET author == AuthorFromData(id, author_data)
             surname == extract_surname(author.canonical_name)
             surname_initial_key == extract_surname_initial(author.canonical_name)
         IN  /\ authors' = Append(authors, id)
             /\ surname_index' =
                  IF surname # EmptyStr
                  THEN DictPut(surname_index, Lower(surname),
                               Append(DictGet(surname_index, Lower(surname), <<>>), id))
                  ELSE surname_index
             /\ surname_initial_index' =
                  IF surname_initial_key # EmptyStr
                  THEN DictPut(surname_initial_index, surname_initial_key,
                               Append(DictGet(surname_initial_index,
                                              surname_initial_key, <<>>), id))
                  ELSE surname_initial_index
             /\ orcid_index' =
                  IF author.orcid # NoOrcid
                  THEN DictPut(orcid_index, author.orcid, id)
                  ELSE orcid_index
             /\ id_index' = DictPut(id_index, id, author)
             /\ \E affs \in FirstOfSet(author.affiliations, MaxAffilKeys),
                   jrnls \in FirstOfSet(author.journals, MaxJournalKeys) :
                  blocking_key_index' =
                      AppendAll(blocking_key_index,
                                generate_blocking_keys(author, affs, jrnls), id)
             /\ result' = [op |-> "add_author", author_id |-> id,
                           author_data |-> author_data]
    /\ UNCHANGED <<engine, trace, review>>

\* the caller merges a record into an Author it holds and hands it to update_author
UpdateAuthor(id, record) ==
    /\ id \in DOMAIN id_index
    /\ LET author == merge_with_record(id_index[id], record)
           surname == extract_surname(author.canonical_name)
       IN  /\ id_index' = [id_index EXCEPT ![id] = author]
           /\ surname_index' =
                IF surname # EmptyStr
                THEN DictPut(surname_index, Lower(surname),
                       Append(SelectSeq(DictGet(surname_index, Lower(surname), <<>>),
                                        LAMBDA a : a # id), id))
                ELSE surname_index
           /\ orcid_index' =
                IF author.orcid # NoOrcid
                THEN DictPut(orcid_index, author.orcid, id)
                ELSE orcid_index
    /\ result' = [op |-> "update_author", author_id |-> id, record |-> record]
    /\ UNCHANGED <<authors, surname_initial_index, blocking_key_index,
                   engine, trace, review>>

\* remove_author reads author.name after it has rewritten self.authors. The
\* Author of models/author.py defines no such attribute (AttributeError, the
\* indexes stay as they were); with an Author whose name is its canonical
\* name the method runs to its end.
RemoveAuthor(author_id) ==
    IF author_id \notin DOMAIN id_index
    THEN /\ result' = [op |-> "remove_author", author_id |-> author_id,
                       returned |-> FALSE, raised |-> "none"]
         /\ UNCHANGED <<repo, engine, trace, review>>
    ELSE /\ authors' = SelectSeq(authors, LAMBDA a : a # author_id)
         /\ \/ /\ result' = [op |-> "remove_author", author_id |-> author_id,
                              returned |-> FALSE, raised |-> "AttributeError"]
               /\ UNCHANGED <<surname_index, orcid_index, id_index>>
            \/ LET author == id_index[author_id]
                   surname == extract_surname(author.canonical_name)
               IN  /\ surname_index' =
                        IF surname # EmptyStr
                        THEN DictPut(surname_index, Lower(surname),
                               SelectSeq(DictGet(surname_index, Lower(surname), <<>>),
                                         LAMBDA a : a # author_id))
                        ELSE surname_index
                   /\ orcid_index' =
                        IF author.orcid \in DOMAIN orcid_index
                        THEN DictDel(orcid_index, author.orcid)
                        ELSE orcid_index
                   /\ id_index' = DictDel(id_index, author_id)
                   /\ result' = [op |-> "remove_author", author_id |-> author_id,
                                 returned |-> TRUE, raised |-> "none"]
         /\ UNCHANGED <<surname_initial_index, blocking_key_index,
                        engine, trace, review>>

\* candidates_dict[author.author_id] = author, for each author of refs in turn
RECURSIVE DictInsertAll(_, _)
DictInsertAll(order, refs) ==
    IF refs = <<>> THEN order
    ELSE DictInsertAll(IF Head(refs) \in Range(order) THEN order
                       ELSE Append(order, Head(refs)),
                       Tail(refs))

\* the candidates left in the order of their insertion into candidates_dict
KeepInsertionOrder(lst) == lst

\* candidates_list.sort(key=lambda a: a.author_id)
SortByAuthorId(lst) == SortedIds(Range(lst))

\* the candidates list returned whole
NoTruncate(lst, max_candidates) == lst

\* candidates_list[:max_candidates]
Truncate(lst, max_candidates) ==
    IF Len(lst) > max_candidates THEN SubSeq(lst, 1, max_candidates) ELSE lst

get_candidates(index, mention, max_candidates) ==
    LET from_orcid ==
            IF mention.orcid # NoOrcid
            THEN DictGet(index, <<"orcid:">> \o mention.orcid, <<>>)
            ELSE <<>>
        surname == IF mention.name # EmptyStr
                   THEN extract_surname(mention.name) ELSE EmptyStr
        from_surname ==
            IF surname # EmptyStr
            THEN DictGet(index, <<"surname:">> \o Lower(surname), <<>>)
            ELSE <<>>
        surname_initial == IF mention.name # EmptyStr
                           THEN extract_surname_initial(mention.name) ELSE EmptyStr
        from_init ==
            IF surname_initial # EmptyStr
            THEN DictGet(index, <<"surname_init:">> \o surname_initial, <<>>)
            ELSE <<>>
        first_aff == Prefix(mention.affiliation, 1)
        from_aff ==
            IF first_aff # <<>> /\ first_aff[1] # EmptyStr
            THEN Prefix(DictGet(index, AffilKey(first_aff[1]), <<>>),
                        AffilCandidateLimit)
            ELSE <<>>
        candidates_dict ==
            DictInsertAll(DictInsertAll(DictInsertAll(DictInsertAll(<<>>,
                from_orcid), from_surname), from_init), from_aff)
    IN  Truncate(SortByAuthorId(candidates_dict), max_candidates)

MaxCandidatesValues == {0, 1, DefaultMaxCandidates}

GetCandidates(mention, max_candidates) ==
    /\ result' = [op |-> "get_candidates", mention |-> mention,
                  max_candidates |-> max_candidates,
                  candidates |-> get_candidates(blocking_key_index, mention,
                                                max_candidates)]
    /\ UNCHANGED <<repo, engine, trace, review>>

-----------------------------------------------------------------------------
(* disambiguation_engine.similarity_scorer.SimilarityScorer *)

SimOne == 60

WeightName == 5

WeightCoauthors == 3

WeightJournals == 2

normalize_name(name) == Join(Split(RemovePunctuation(Lower(name))))

normalize_string(text) == Join(Split(Lower(text)))

RECURSIVE levenshtein_distance(_, _)
levenshtein_distance(s1, s2) ==
    IF s1 = <<>> THEN Len(s2)
    ELSE IF s2 = <<>> THEN Len(s1)
    ELSE Min(Min(levenshtein_distance(Tail(s1), s2) + 1,
                 levenshtein_distance(s1, Tail(s2)) + 1),
             levenshtein_distance(Tail(s1), Tail(s2))
                 + (IF Head(s1) = Head(s2) THEN 0 ELSE 1))

\* 1.0 - distance / max_len, as a fraction of SimOne
EditSimilarity(a, b) ==
    LET max_len == Max(Len(a), Len(b))
    IN  IF max_len = 0 THEN 0
        ELSE Max(0, (SimOne * (max_len - levenshtein_distance(a, b))) \div max_len)

calculate_name_similarity(name1, name2) ==
    IF name1 = EmptyStr \/ name2 = EmptyStr THEN 0
    ELSE IF normalize_name(name1) = normalize_name(name2) THEN SimOne
    ELSE EditSimilarity(normalize_name(name1), normalize_name(name2))

calculate_jaccard_similarity(set1, set2) ==
    IF set1 = {} /\ set2 = {} THEN SimOne
    ELSE IF set1 = {} \/ set2 = {} THEN 0
    ELSE LET n1 == {normalize_string(x) : x \in set1}
             n2 == {normalize_string(x) : x \in set2}
         IN  (SimOne * Cardinality(n1 \cap n2)) \div Cardinality(n1 \cup n2)

normalize_affiliation(affiliation) ==
    Join(Split(RemovePunctuation(Lower(Strip(affiliation)))))

calculate_affiliation_similarity_max(affs1, affs2) ==
    IF affs1 = {} \/ affs2 = {} THEN 0
    ELSE IF \E x \in affs1, y \in affs2 :
               normalize_affiliation(x) = normalize_affiliation(y)
         THEN SimOne
         ELSE LET sims == {EditSimilarity(normalize_affiliation(x),
                                          normalize_affiliation(y)) :
                             x \in affs1, y \in affs2}
              IN  CHOOSE m \in sims : \A z \in sims : m >= z

OrcidUrlPrefixes == {"http://orcid.org/", "https://orcid.org/"}

clean_orcid(orcid) == Strip(SelectSeq(orcid, LAMBDA c : c \notin OrcidUrlPrefixes))

bin_name_similarity(sim) ==
    IF sim * 100 >= 95 * SimOne THEN "exact"
    ELSE IF sim * 100 >= 75 * SimOne THEN "high"
    ELSE IF sim * 100 >= 50 * SimOne THEN "medium"
    ELSE IF sim > 0 THEN "low"
    ELSE "none"

bin_set_similarity(sim) ==
    IF sim * 100 >= 50 * SimOne THEN "high"
    ELSE IF sim * 100 >= 20 * SimOne THEN "medium"
    ELSE IF sim > 0 THEN "low"
    ELSE "none"

bin_affiliation_similarity(sim) ==
    IF sim * 100 >= 90 * SimOne THEN "exact"
    ELSE IF sim * 100 >= 70 * SimOne THEN "high"
    ELSE IF sim * 100 >= 40 * SimOne THEN "medium"
    ELSE IF sim > 0 THEN "low"
    ELSE "none"

compute_comparisons(mention, author) ==
    LET name_sim == IF mention.name # EmptyStr /\ author.canonical_name # EmptyStr
                    THEN calculate_name_similarity(mention.name, author.canonical_name)
                    ELSE 0
        orcid_match == /\ mention.orcid # NoOrcid
                       /\ author.orcid # NoOrcid
                       /\ clean_orcid(mention.orcid) = clean_orcid(author.orcid)
        mention_coauthors == Range(mention.coauthors)
        coauthor_sim == IF mention_coauthors # {} /\ author.coauthor_ids # {}
                        THEN calculate_jaccard_similarity(mention_coauthors,
                                                          author.coauthor_ids)
                        ELSE 0
        mention_journals == Range(mention.journals)
        journal_sim == IF mention_journals # {} /\ author.journals # {}
                       THEN calculate_jaccard_similarity(mention_journals,
                                                         author.journals)
                       ELSE 0
        affiliation_sim ==
            IF mention.affiliation # <<>> /\ author.affiliations # {}
            THEN calculate_affiliation_similarity_max(Range(mention.affiliation),
                                                      author.affiliations)
            ELSE 0
    IN  [name_sim |-> name_sim,
         name_bin |-> bin_name_similarity(name_sim),
         orcid_match |-> orcid_match,
         orcid_bin |-> IF orcid_match THEN "match" ELSE "missing",
         coauthor_sim |-> coauthor_sim,
         coauthor_bin |-> bin_set_similarity(coauthor_sim),
         journal_sim |-> journal_sim,
         journal_bin |-> bin_set_similarity(journal_sim),
         affiliation_sim |-> affiliation_sim,
         affiliation_bin |-> bin_affiliation_similarity(affiliation_sim)]

\* weighted sum, in units of 1/(SimOne * 10)
score_baseline(comparisons) ==
    LET components == [name |-> comparisons.name_sim * WeightName,
                       coauthors |-> comparisons.coauthor_sim * WeightCoauthors,
                       journals |-> comparisons.journal_sim * WeightJournals]
    IN  [score |-> components.name + components.coauthors + components.journals,
         components |-> components]

\* sum(self.weights.values()), weights in tenths
RECURSIVE SumValues(_)
SumValues(d) ==
    IF DOMAIN d = {} THEN 0
    ELSE LET k == CHOOSE x \in DOMAIN d : TRUE
         IN  d[k] + SumValues([x \in DOMAIN d \ {k} |-> d[x]])

\* _validate_weights accepts the weights: they sum to 1.0
validate_weights(weights) == SumValues(weights) = WeightName + WeightCoauthors + WeightJournals

\* the contribution of one feature: none unless its weight is there and > 0
Contribution(weights, feature, sim) ==
    IF feature \in DOMAIN weights /\ weights[feature] > 0
    THEN sim * weights[feature] ELSE 0

\* score_baseline of a scorer with the given weights, in units of
\* 1/(SimOne * 10)
score_baseline_weighted(weights, comparisons) ==
    Contribution(weights, "name", comparisons.name_sim)
        + Contribution(weights, "coauthors", comparisons.coauthor_sim)
        + Contribution(weights, "journals", comparisons.journal_sim)

\* SimilarityScorer(config={'weights': weights, ...})
NewScorer(weights) ==
    /\ engine = [mode |-> "none"]
    /\ IF validate_weights(weights)
       THEN /\ engine' = [mode |-> "scorer", weights |-> weights]
            /\ result' = [op |-> "new_scorer", raised |-> "none"]
       ELSE /\ engine' = engine
            /\ result' = [op |-> "new_scorer", raised |-> "ValueError"]
    /\ UNCHANGED <<repo, trace, review>>

\* scorer.score_baseline(comparisons)
ScoreBaseline(comparisons) ==
    /\ engine.mode = "scorer"
    /\ result' = [op |-> "score_baseline", comparisons |-> comparisons,
                  score |-> score_baseline_weighted(engine.weights, comparisons)]
    /\ UNCHANGED <<repo, engine, trace, review>>

\* 1000 * log(m / u) of config.MU_TABLE, rounded to the nearest integer
LLR(feature, bin) ==
    CASE feature = "name" ->
           (CASE bin = "exact" -> 4554 [] bin = "high" -> 2773
              [] bin = "medium" -> 981 [] bin = "low" -> 0 - 1099
              [] OTHER -> 0 - 4248)
      [] feature = "orcid" ->
           (CASE bin = "match" -> 6898 [] OTHER -> 0 - 336)
      [] feature = "coauthor" ->
           (CASE bin = "high" -> 2639 [] bin = "medium" -> 981
              [] bin = "low" -> 0 - 405 [] OTHER -> 0 - 1792)
      [] feature = "journal" ->
           (CASE bin = "high" -> 1872 [] bin = "medium" -> 560
              [] bin = "low" -> 0 - 560 [] OTHER -> 0 - 1609)
      [] OTHER ->
           (CASE bin = "exact" -> 3807 [] bin = "high" -> 2169
              [] bin = "medium" -> 693 [] bin = "low" -> 0 - 847
              [] OTHER -> 0 - 2485)

\* sum of log-likelihood ratios, in units of 1/1000
score_fellegi_sunter(comparisons) ==
    LET components == [name |-> LLR("name", comparisons.name_bin),
                       orcid |-> LLR("orcid", comparisons.orcid_bin),
                       coauthor |-> LLR("coauthor", comparisons.coauthor_bin),
                       journal |-> LLR("journal", comparisons.journal_bin),
                       affiliation |-> LLR("affiliation", comparisons.affiliation_bin)]
    IN  [score |-> components.name + components.orcid + components.coauthor
                     + components.journal + components.affiliation,
         components |-> components]

-----------------------------------------------------------------------------
(* disambiguation_engine.decision_trace.DecisionTraceLogger *)

Salt == <<"salt">>

\* sha256(text || "||" || salt): an injective function of (text, salt)
hash_text(text) == [sha256 |-> text \o <<"|", "|">> \o Salt]

redact_name(name) ==
    [hash |-> hash_text(name), tokens |-> Len(Split(name)), length |-> Len(name)]

redact_mention(mention) ==
    [name |-> IF mention.name # EmptyStr THEN redact_name(mention.name) ELSE NoValue,
     orcid |-> mention.orcid,
     affiliation |-> [i \in 1..Len(mention.affiliation) |->
                         hash_text(mention.affiliation[i])],
     coauthor_count |-> Len(mention.coauthors),
     journal_count |-> Len(mention.journals)]

build_redacted_trace(decision_result, mention) ==
    [mode |-> decision_result.mode,
     decision |-> decision_result.decision,
     score_total |-> decision_result.score_total,
     best_author_id |-> decision_result.best_author_id,
     candidate_count |-> decision_result.candidate_count,
     blocking_keys |-> decision_result.blocking_keys,
     mention |-> redact_mention(mention)]

\* the main trace with the record put in front of the earlier ones
TracePrepended(decision_result, mention, write_ok) ==
    IF engine.trace_path /\ write_ok
    THEN <<build_redacted_trace(decision_result, mention)>> \o trace
    ELSE trace

\* the main trace after append_trace; a write that fails (write_ok false) is
\* logged and leaves the file as it was
TraceWritten(decision_result, mention, write_ok) ==
    IF engine.trace_path /\ write_ok
    THEN Append(trace, build_redacted_trace(decision_result, mention))
    ELSE trace

\* the review queue after append_trace (which calls _append_review on
\* UNKNOWN, whether or not the main write failed)
ReviewWritten(decision_result, mention, write_ok) ==
    IF /\ engine.trace_path
       /\ decision_result.decision = "unknown"
       /\ engine.review_path
       /\ write_ok
    THEN Append(review, [record |-> build_redacted_trace(decision_result, mention),
                         review_status |-> "pending"])
    ELSE review

\* the main trace after an append_trace whose write succeeds
TraceAfter(decision_result, mention) ==
    TraceWritten(decision_result, mention, TRUE)

\* the review queue after an append_trace whose writes succeed
ReviewAfter(decision_result, mention) ==
    ReviewWritten(decision_result, mention, TRUE)

-----------------------------------------------------------------------------
(* disambiguation_engine.decision_types.DecisionResult, as a value of its own:
   scores and thresholds in units of 10^-7, so that rounding to 6 digits
   is not the identity *)

\* round(x, 6)
Round6(x) == ((x + 5) \div 10) * 10

\* the format .3f
Round3(x) == ((x + 5000) \div 10000) * 10000

RoundAll(d) == [k \in DOMAIN d |-> Round6(d[k])]

\* sha256 of the sorted JSON of the six hashed fields: an injective function
\* of their rounded values
compute_deterministic_hash(decision_result) ==
    [sha256 |-> [decision |-> decision_result.decision,
                 score_total |-> Round6(decision_result.score_total),
                 score_components |-> RoundAll(decision_result.score_components),
                 best_author_id |-> decision_result.best_author_id,
                 mode |-> decision_result.mode,
                 thresholds |-> RoundAll(decision_result.thresholds)]]

generate_reason(decision_result) ==
    [decision |-> decision_result.decision,
     score |-> Round3(decision_result.score_total),
     threshold |-> CASE decision_result.decision = "merge" ->
                          <<decision_result.thresholds.accept>>
                     [] decision_result.decision = "new" ->
                          <<decision_result.thresholds.reject>>
                     [] OTHER -> <<decision_result.thresholds.reject,
                                   decision_result.thresholds.accept>>,
     author |-> IF decision_result.decision = "merge"
                THEN decision_result.best_author_id ELSE NoValue]

\* the hash is computed only when the constructor got none
hash_if_empty(decision_result) ==
    IF decision_result.deterministic_hash = EmptyStr
    THEN [decision_result EXCEPT
            !.deterministic_hash = compute_deterministic_hash(decision_result)]
    ELSE decision_result

reason_if_empty(decision_result) ==
    IF decision_result.reason = EmptyStr
    THEN [decision_result EXCEPT !.reason = generate_reason(decision_result)]
    ELSE decision_result

post_init(decision_result) == reason_if_empty(hash_if_empty(decision_result))

to_dict(decision_result) ==
    [decision_result EXCEPT
       !.score_total = Round6(@),
       !.score_components = RoundAll(@)]

\* from_dict passes the stored reason and deterministic_hash to the
\* constructor, which keeps them when they are not empty
from_dict(data) ==
    post_init([decision |-> data.decision,
               best_author_id |-> data.best_author_id,
               score_total |-> data.score_total,
               score_components |-> data.score_components,
               thresholds |-> data.thresholds,
               reason |-> data.reason,
               deterministic_hash |-> data.deterministic_hash,
               mode |-> data.mode,
               candidate_count |-> data.candidate_count])

Decisions == {"merge", "new", "unknown"}

\* 0.85, 0.15, 0.45 and a score with more than 6 digits
ResultScores == {8500000, 1500000, 4500000, 6333333}

ResultComponents == {EmptyDict, [name |-> 5000000, coauthors |-> 2000004]}

ResultThresholds == [accept |-> 8000000, reject |-> 2000000]

ResultAuthors == {NoValue, <<"au_test123">>}

Emitted == result.op \in {"construct", "from_dict", "setattr"}

\* DecisionResult(...) without reason and deterministic_hash
Construct(decision, best_author_id, score_total, score_components, mode) ==
    /\ result' = [op |-> "construct",
                  decision_result |->
                    post_init([decision |-> decision,
                               best_author_id |-> best_author_id,
                               score_total |-> score_total,
                               score_components |-> score_components,
                               thresholds |-> ResultThresholds,
                               reason |-> EmptyStr,
                               deterministic_hash |-> EmptyStr,
                               mode |-> mode,
                               candidate_count |-> 1])]
    /\ UNCHANGED <<repo, engine, trace, review>>

\* DecisionResult.from_dict(json.loads(result.to_json()))
Rebuild ==
    /\ Emitted
    /\ result' = [op |-> "from_dict",
                  decision_result |-> from_dict(to_dict(result.decision_result))]
    /\ UNCHANGED <<repo, engine, trace, review>>

\* result.decision = ...; result.score_total = ... (the dataclass is not
\* frozen and has no __setattr__)
AssignFields(decision, score_total) ==
    /\ Emitted
    /\ result' = [op |-> "setattr",
                  decision_result |->
                    [result.decision_result EXCEPT
                       !.decision = decision, !.score_total = score_total]]
    /\ UNCHANGED <<repo, engine, trace, review>>

-----------------------------------------------------------------------------
(* disambiguation_engine.author_merger.AuthorMerger *)

NoAuthor == 0

DefaultTopK == 5

\* thresholds of the baseline test scenario (0.70 / 0.20), in units of 1/(SimOne*10)
BaselineAccept == 420

BaselineReject == 120

\* config.ACCEPT_THRESHOLD / REJECT_THRESHOLD (0.90 / 0.20), in units of 1/1000
FsAccept == 900

FsReject == 200

EngineConfigs ==
    {[mode |-> "baseline", accept_threshold |-> BaselineAccept,
      reject_threshold |-> BaselineReject, topk |-> DefaultTopK,
      trace_path |-> TRUE, review_path |-> TRUE],
     [mode |-> "fs", accept_threshold |-> FsAccept,
      reject_threshold |-> FsReject, topk |-> DefaultTopK,
      trace_path |-> TRUE, review_path |-> TRUE]}

\* engines whose trace logger has a review path, with and without a trace path
TraceEngines ==
    {[mode |-> "baseline", accept_threshold |-> BaselineAccept,
      reject_threshold |-> BaselineReject, topk |-> DefaultTopK,
      trace_path |-> tp, review_path |-> TRUE] : tp \in BOOLEAN}

\* AuthorMerger.__init__ accepts the configuration
ValidEngine(cfg) ==
    /\ cfg.mode \in {"baseline", "fs"}
    /\ ~(cfg.reject_threshold >= cfg.accept_threshold)

extract_blocking_keys(mention) ==
    LET tokens == Split(Strip(mention.name))
        surname == Lower(tokens[Len(tokens)])
        first_initial == [i \in 1..Min(1, Len(tokens[1])) |-> UpperChar(tokens[1][i])]
    IN  (IF mention.orcid # NoOrcid THEN << <<"orcid:">> \o mention.orcid >> ELSE <<>>)
        \o (IF mention.name # EmptyStr /\ tokens # <<>>
            THEN << <<"surname:">> \o surname >>
                 \o (IF Len(tokens) >= 2 /\ first_initial # EmptyStr
                     THEN << <<"surname_initial:">> \o surname
                             \o <<"_">> \o first_initial >>
                     ELSE <<>>)
            ELSE <<>>)

\* a descending sort that reverses the candidates with equal scores (an
\* ascending stable sort read backwards)
RECURSIVE SortAscendingReversed(_)
SortAscendingReversed(scored) ==
    IF scored = <<>> THEN <<>>
    ELSE LET best == CHOOSE i \in 1..Len(scored) :
                       /\ \A j \in 1..Len(scored) : scored[j].score <= scored[i].score
                       /\ \A j \in (i + 1)..Len(scored) : scored[j].score < scored[i].score
             rest == [k \in 1..(Len(scored) - 1) |->
                        IF k < best THEN scored[k] ELSE scored[k + 1]]
         IN  <<scored[best]>> \o SortAscendingReversed(rest)

\* scored_candidates.sort(key=score, reverse=True): stable, so candidates with
\* equal scores keep the order in which get_candidates returned them
RECURSIVE SortByScoreDesc(_)
SortByScoreDesc(scored) ==
    IF scored = <<>> THEN <<>>
    ELSE LET best == CHOOSE i \in 1..Len(scored) :
                       /\ \A j \in 1..Len(scored) : scored[j].score <= scored[i].score
                       /\ \A j \in 1..(i - 1) : scored[j].score < scored[i].score
             rest == [k \in 1..(Len(scored) - 1) |->
                        IF k < best THEN scored[k] ELSE scored[k + 1]]
         IN  <<scored[best]>> \o SortByScoreDesc(rest)

\* the dual-threshold rule with the comparison at the accept threshold strict
DecideStrict(best_score, accept_threshold, reject_threshold) ==
    IF best_score > accept_threshold THEN "merge"
    ELSE IF best_score <= reject_threshold THEN "new"
    ELSE "unknown"

\* the dual-threshold rule
Decide(best_score, accept_threshold, reject_threshold) ==
    IF best_score >= accept_threshold THEN "merge"
    ELSE IF best_score <= reject_threshold THEN "new"
    ELSE "unknown"

\* a NEW result that reports the reject threshold as its score
NewAtRejectThreshold(cfg, blocking_keys) ==
    [decision |-> "new",
     best_author_id |-> NoAuthor,
     score_total |-> cfg.reject_threshold,
     score_components |-> EmptyDict,
     thresholds |-> [accept |-> cfg.accept_threshold, reject |-> cfg.reject_threshold],
     mode |-> cfg.mode,
     topk |-> <<>>,
     candidate_count |-> 0,
     blocking_keys |-> blocking_keys]

\* _make_new_decision as make_decision calls it: score_total 0.0 and
\* score_components {}
make_new_decision(cfg, blocking_keys) ==
    [decision |-> "new",
     best_author_id |-> NoAuthor,
     score_total |-> 0,
     score_components |-> EmptyDict,
     thresholds |-> [accept |-> cfg.accept_threshold, reject |-> cfg.reject_threshold],
     mode |-> cfg.mode,
     topk |-> <<>>,
     candidate_count |-> 0,
     blocking_keys |-> blocking_keys]

\* one entry of scored_candidates
ScoredCandidate(cfg, author_id, comparisons) ==
    [author_id |-> author_id,
     score |-> IF cfg.mode = "baseline"
               THEN score_baseline(comparisons).score
               ELSE score_fellegi_sunter(comparisons).score,
     components |-> IF cfg.mode = "baseline"
                    THEN score_baseline(comparisons).components
                    ELSE score_fellegi_sunter(comparisons).components]

\* step 3 of make_decision: the score of every candidate, in candidate order
score_candidates(cfg, objects, mention, candidates) ==
    [i \in 1..Len(candidates) |->
       ScoredCandidate(cfg, candidates[i],
                       compute_comparisons(mention, objects[candidates[i]]))]

\* steps 6-7 of make_decision: the DecisionResult for the sorted candidates
build_decision_result(cfg, sorted, decision, candidate_count, blocking_keys) ==
    [decision |-> decision,
     best_author_id |-> IF decision = "merge" THEN sorted[1].author_id ELSE NoAuthor,
     score_total |-> sorted[1].score,
     score_components |-> sorted[1].components,
     thresholds |-> [accept |-> cfg.accept_threshold, reject |-> cfg.reject_threshold],
     mode |-> cfg.mode,
     topk |-> [i \in 1..Min(cfg.topk, Len(sorted)) |->
                 [author_id |-> sorted[i].author_id, score |-> sorted[i].score]],
     candidate_count |-> candidate_count,
     blocking_keys |-> blocking_keys]

\* steps 4-7 of make_decision: the best of the sorted candidates decides
decide_sorted(cfg, sorted, candidate_count, blocking_keys) ==
    build_decision_result(cfg, sorted,
                          Decide(sorted[1].score, cfg.accept_threshold,
                                 cfg.reject_threshold),
                          candidate_count, blocking_keys)

\* steps 2-7 of make_decision, for the candidates retrieved
decide_candidates(cfg, objects, mention, candidates, blocking_keys) ==
    IF candidates = <<>>
    THEN make_new_decision(cfg, blocking_keys)
    ELSE decide_sorted(cfg,
                       SortByScoreDesc(score_candidates(cfg, objects, mention,
                                                        candidates)),
                       Len(candidates), blocking_keys)

\* the DecisionResult make_decision builds for the mention
make_decision(cfg, index, objects, mention) ==
    decide_candidates(cfg, objects, mention,
                      get_candidates(index, mention, DefaultMaxCandidates),
                      extract_blocking_keys(mention))

\* step 8 of make_decision (_log_trace) and the return of the result
ReturnDecision(decision_result, mention) ==
    /\ trace' = TraceAfter(decision_result, mention)
    /\ review' = ReviewAfter(decision_result, mention)
    /\ result' = [op |-> "make_decision", mention |-> mention,
                  raised |-> "none", decision_result |-> decision_result]

\* the mention's name merged into the top candidate unless the decision is NEW
MergeUnlessNew(decision_result, mention) ==
    /\ id_index' =
         IF decision_result.decision = "new" THEN id_index
         ELSE [id_index EXCEPT ![decision_result.topk[1].author_id] =
                 add_alternate_name(@, mention.name)]
    /\ ReturnDecision(decision_result, mention)

\* make_decision that also merges the mention's name into its top candidate
\* whenever the decision is not NEW (UNKNOWN handled like MERGE)
MakeDecisionMerging(mention) ==
    /\ Len(trace) < MaxTrace
    /\ MergeUnlessNew(make_decision(engine, blocking_key_index, id_index, mention),
                      mention)
    /\ UNCHANGED <<authors, surname_index, surname_initial_index, orcid_index,
                   blocking_key_index, engine>>

\* a failed write that makes make_decision raise instead of returning
ReturnOrRaise(decision_result, mention, trace_ok, review_ok) ==
    /\ trace' = TraceWritten(decision_result, mention, trace_ok)
    /\ review' = ReviewWritten(decision_result, mention, review_ok)
    /\ result' = [op |-> "make_decision", mention |-> mention,
                  raised |-> IF trace_ok /\ review_ok THEN "none" ELSE "OSError",
                  decision_result |-> IF trace_ok /\ review_ok
                                      THEN decision_result ELSE NoValue,
                  trace_ok |-> trace_ok, review_ok |-> review_ok]

\* step 8 of make_decision with the outcome of the two writes of append_trace
\* (open/write raising is caught in append_trace and _append_review), and
\* the return of the result
ReturnDecisionLogged(decision_result, mention, trace_ok, review_ok) ==
    /\ trace' = TraceWritten(decision_result, mention, trace_ok)
    /\ review' = ReviewWritten(decision_result, mention, review_ok)
    /\ result' = [op |-> "make_decision", mention |-> mention,
                  raised |-> "none", decision_result |-> decision_result,
                  trace_ok |-> trace_ok, review_ok |-> review_ok]

\* make_decision, given whether the write to the main trace and the write to
\* the review queue succeed
LogDecision(mention, trace_ok, review_ok) ==
    /\ ReturnDecisionLogged(make_decision(engine, blocking_key_index, id_index, mention),
                            mention, trace_ok, review_ok)
    /\ UNCHANGED <<repo, engine>>

\* make_decision on a trace logger whose files can be written
MakeDecisionLogged(mention) ==
    /\ Len(trace) < MaxLogged
    /\ LogDecision(mention, TRUE, TRUE)

\* make_decision on a trace logger whose writes may fail
MakeDecisionFailing(mention, trace_ok, review_ok) ==
    /\ Len(trace) < MaxTrace
    /\ Len(review) < MaxTrace
    /\ LogDecision(mention, trace_ok, review_ok)

MakeDecision(mention) ==
    /\ Len(trace) < MaxTrace
    /\ ReturnDecision(make_decision(engine, blocking_key_index, id_index, mention),
                      mention)
    /\ UNCHANGED <<repo, engine>>

-----------------------------------------------------------------------------
(* Specifications *)

\* a repository used on its own, with no AuthorMerger built over it
NoEngine == [mode |-> "none"]

InitRepository ==
    /\ authors = <<>>
    /\ surname_index = EmptyDict
    /\ surname_initial_index = EmptyDict
    /\ orcid_index = EmptyDict
    /\ id_index = EmptyDict
    /\ blocking_key_index = EmptyDict
    /\ trace = <<>>
    /\ review = <<>>
    /\ result = [op |-> "init"]

\* an AuthorMerger over an empty repository, with a trace logger
Init ==
    /\ InitRepository
    /\ engine \in {cfg \in EngineConfigs : ValidEngine(cfg)}

\* the decision engine and the insertions its callers make
Next ==
    \/ \E author_data \in AuthorData : AddAuthor(author_data)
    \/ \E mention \in Mentions : MakeDecision(mention)

Spec == Init /\ [][Next]_vars

InitRepo ==
    /\ InitRepository
    /\ engine = NoEngine

\* the repository operations
NextRepo ==
    \/ \E author_data \in AuthorData : AddAuthor(author_data)
    \/ \E id \in AuthorIds, record \in Records : UpdateAuthor(id, record)
    \/ \E mention \in Mentions, max_candidates \in MaxCandidatesValues :
         GetCandidates(mention, max_candidates)

SpecRepo == InitRepo /\ [][NextRepo]_vars

\* the engine and its trace logger
TraceAuthorData == {MentionJS}

TraceMentions == {MentionJS, MentionAS, MentionLower}

InitTrace ==
    /\ InitRepository
    /\ engine \in {cfg \in TraceEngines : ValidEngine(cfg)}

NextTrace ==
    \/ \E author_data \in TraceAuthorData : AddAuthor(author_data)
    \/ \E mention \in TraceMentions : MakeDecisionLogged(mention)

SpecTrace == InitTrace /\ [][NextTrace]_vars

\* the engine with a trace logger whose writes may fail
NextFailing ==
    \/ \E author_data \in TraceAuthorData : AddAuthor(author_data)
    \/ \E mention \in TraceMentions, trace_ok \in BOOLEAN, review_ok \in BOOLEAN :
         MakeDecisionFailing(mention, trace_ok, review_ok)

SpecFailing == InitTrace /\ [][NextFailing]_vars

\* 1.0 in the units of the baseline score
BaselineOne == SimOne * (WeightName + WeightCoauthors + WeightJournals)

BaseConfig(mode, accept_threshold, reject_threshold) ==
    [mode |-> mode, accept_threshold |-> accept_threshold,
     reject_threshold |-> reject_threshold, topk |-> DefaultTopK,
     trace_path |-> TRUE, review_path |-> TRUE]

\* arguments for AuthorMerger(...): the two usual configurations, an unknown
\* mode, reject = accept, reject > accept, accept above 1.0 and reject below 0
ConstructorArguments ==
    EngineConfigs
        \cup {BaseConfig("other", BaselineAccept, BaselineReject),
              BaseConfig("baseline", BaselineAccept, BaselineAccept),
              BaseConfig("fs", FsReject, FsAccept),
              BaseConfig("baseline", BaselineOne + BaselineReject, BaselineReject),
              BaseConfig("baseline", BaselineAccept, 0 - BaselineReject)}

\* AuthorMerger(database, mode, accept_threshold, reject_threshold, ...)
NewEngine(cfg) ==
    /\ engine = NoEngine
    /\ IF ValidEngine(cfg)
       THEN /\ engine' = cfg
            /\ result' = [op |-> "new_engine", cfg |-> cfg, raised |-> "none"]
       ELSE /\ engine' = engine
            /\ result' = [op |-> "new_engine", cfg |-> cfg, raised |-> "ValueError"]
    /\ UNCHANGED <<repo, trace, review>>

\* make_decision on an engine that was constructed
MakeDecisionBuilt(mention) ==
    /\ engine # NoEngine
    /\ MakeDecision(mention)

\* the construction of the engine, then its use
NextConfig ==
    \/ \E cfg \in ConstructorArguments : NewEngine(cfg)
    \/ \E author_data \in TraceAuthorData : AddAuthor(author_data)
    \/ \E mention \in TraceMentions : MakeDecisionBuilt(mention)

SpecConfig == InitRepo /\ [][NextConfig]_vars

\* a scorer constructed with some weights (the default ones, one weight only,
\* a sum other than 1.0, a negative weight, a weight of another feature),
\* then used on raw similarities between 0 and 1
NextScorer ==
    \/ \E weights \in
            {[name |-> WeightName, coauthors |-> WeightCoauthors,
              journals |-> WeightJournals],
             [name |-> WeightName + WeightCoauthors + WeightJournals],
             [name |-> WeightName, coauthors |-> WeightCoauthors],
             [name |-> WeightName + WeightCoauthors + WeightJournals + WeightName,
              coauthors |-> 0 - WeightName, journals |-> 0],
             [name |-> WeightName, affiliation |-> WeightName]} :
         NewScorer(weights)
    \/ \E name_sim, coauthor_sim, journal_sim \in {0, SimOne \div 2, SimOne} :
         ScoreBaseline([name_sim |-> name_sim, coauthor_sim |-> coauthor_sim,
                        journal_sim |-> journal_sim])

SpecScorer == InitRepo /\ [][NextScorer]_vars

\* scorer.compute_comparisons(mention, author) for an author of the repository
ComputeComparisons(mention, author_id) ==
    /\ author_id \in DOMAIN id_index
    /\ result' = [op |-> "compute_comparisons", mention |-> mention,
                  author_id |-> author_id,
                  comparisons |-> compute_comparisons(mention, id_index[author_id])]
    /\ UNCHANGED <<repo, engine, trace, review>>

\* the scorer applied to authors that have received records
NextCompare ==
    \/ \E author_data \in AuthorData : AddAuthor(author_data)
    \/ \E id \in AuthorIds, record \in Records : UpdateAuthor(id, record)
    \/ \E mention \in TraceMentions, id \in AuthorIds :
         ComputeComparisons(mention, id)

SpecCompare == InitRepo /\ [][NextCompare]_vars

\* DecisionResult values
NextResult ==
    \/ \E decision \in Decisions, best_author_id \in ResultAuthors,
          score_total \in ResultScores, score_components \in ResultComponents,
          mode \in {"baseline", "fs"} :
         Construct(decision, best_author_id, score_total, score_components, mode)
    \/ Rebuild
    \/ \E decision \in Decisions, score_total \in ResultScores :
         AssignFields(decision, score_total)

SpecResult == InitRepo /\ [][NextResult]_vars

\* the repository with removals
NextRemoval ==
    \/ \E author_data \in AuthorData : AddAuthor(author_data)
    \/ \E author_id \in AuthorIds : RemoveAuthor(author_id)
    \/ \E mention \in Mentions, max_candidates \in MaxCandidatesValues :
         GetCandidates(mention, max_candidates)

SpecRemoval == InitRepo /\ [][NextRemoval]_vars

-----------------------------------------------------------------------------
(* Properties of the decision engine (specification Spec) *)

\* the score the engine's scorer gives a repository author for a mention
ScoreOf(mention, id) ==
    LET comparisons == compute_comparisons(mention, id_index[id])
    IN  IF engine.mode = "baseline"
        THEN score_baseline(comparisons).score
        ELSE score_fellegi_sunter(comparisons).score

CandidateIds(mention) ==
    Range(get_candidates(blocking_key_index, mention, DefaultMaxCandidates))

\* s*: the highest score among the mention's candidates
HighestScore(mention) ==
    LET scores == {ScoreOf(mention, id) : id \in CandidateIds(mention)}
    IN  CHOOSE m \in scores : \A x \in scores : x <= m

Decided == result.op = "make_decision"

OrcidOwners(orcid) == {id \in DOMAIN id_index : id_index[id].orcid = orcid}

\* a name that is missing, empty or whitespace-only
InvalidName(name) == Strip(name) = EmptyStr

\* the candidates that share the mention's highest score
TiedBest(mention) ==
    {id \in CandidateIds(mention) : ScoreOf(mention, id) = HighestScore(mention)}

MinId(ids) == CHOOSE m \in ids : \A x \in ids : m <= x

\* C1: for a mention with at least one candidate, make_decision returns MERGE
\* iff the highest candidate score s* is >= accept_threshold, NEW iff
\* s* <= reject_threshold, and UNKNOWN iff reject_threshold < s* <
\* accept_threshold (so s* = accept gives MERGE and s* = reject gives NEW).
\* The code has no ORCID override, so the rule is checked for every mention.
C1_ThresholdRule ==
    (Decided /\ CandidateIds(result.mention) # {}) =>
        LET s == HighestScore(result.mention)
            decision == result.decision_result.decision
        IN  /\ result.decision_result.score_total = s
            /\ (decision = "merge") <=> (s >= engine.accept_threshold)
            /\ (decision = "new") <=> (s <= engine.reject_threshold)
            /\ (decision = "unknown") <=>
                   (engine.reject_threshold < s /\ s < engine.accept_threshold)

\* C1 witness: a mention without ORCID whose best candidate scores exactly the
\* accept threshold was decided MERGE
C1_Witness ==
    /\ Decided
    /\ result.mention.orcid = NoOrcid
    /\ CandidateIds(result.mention) # {}
    /\ HighestScore(result.mention) = engine.accept_threshold
    /\ result.decision_result.decision = "merge"

\* C2: if a (valid) mention carries an ORCID that an author of the repository
\* owns, the decision is MERGE with best_author_id that owner, whatever the
\* names and the score.
C2_OrcidOverride ==
    (Decided /\ ~InvalidName(result.mention.name)
       /\ result.mention.orcid # NoOrcid) =>
        \A owner \in OrcidOwners(result.mention.orcid) :
            /\ result.decision_result.decision = "merge"
            /\ result.decision_result.best_author_id = owner

\* C5: when make_decision returns MERGE with best author A for mention M, on
\* return A has M's name among its alternate names, its coauthor_ids,
\* journals and affiliations are the unions of the previous values with M's,
\* and its publication_count is one higher.
C5_MergeApplied ==
    [][(result'.op = "make_decision"
          /\ ~InvalidName(result'.mention.name)
          /\ result'.decision_result.decision = "merge") =>
        LET A == result'.decision_result.best_author_id
            M == result'.mention
        IN  /\ A \in DOMAIN id_index'
            /\ M.name \in id_index'[A].alternate_names
            /\ id_index'[A].coauthor_ids =
                   id_index[A].coauthor_ids \cup Range(M.coauthors)
            /\ id_index'[A].journals = id_index[A].journals \cup Range(M.journals)
            /\ id_index'[A].affiliations =
                   id_index[A].affiliations \cup Range(M.affiliation)
            /\ id_index'[A].publication_count = id_index[A].publication_count + 1
      ]_vars

\* C6: when make_decision returns NEW for mention M, on return the repository
\* holds exactly one author more, built from M, and every previously
\* existing author is unchanged.
C6_NewInserted ==
    [][(result'.op = "make_decision"
          /\ ~InvalidName(result'.mention.name)
          /\ result'.decision_result.decision = "new") =>
        /\ Len(authors') = Len(authors) + 1
        /\ \E id \in DOMAIN id_index' \ DOMAIN id_index :
              /\ DOMAIN id_index' = DOMAIN id_index \cup {id}
              /\ id_index'[id] = AuthorFromData(id, result'.mention)
        /\ \A id \in DOMAIN id_index :
              id \in DOMAIN id_index' /\ id_index'[id] = id_index[id]
      ]_vars

\* C7: when make_decision returns UNKNOWN, the repository is the same before
\* and after the call: the same authors, the same field values of every
\* author and the same contents of every index.
C7_UnknownLeavesRepository ==
    [][(result'.op = "make_decision"
          /\ result'.decision_result.decision = "unknown") =>
        /\ authors' = authors
        /\ id_index' = id_index
        /\ surname_index' = surname_index
        /\ surname_initial_index' = surname_initial_index
        /\ orcid_index' = orcid_index
        /\ blocking_key_index' = blocking_key_index
      ]_vars

\* C7 witness: make_decision returned UNKNOWN over a repository with authors
C7_Witness ==
    /\ Decided
    /\ result.decision_result.decision = "unknown"
    /\ result.decision_result.candidate_count >= 1
    /\ authors # <<>>

\* C8: a mention whose name is missing, empty or whitespace-only is rejected
\* as InvalidMention: no DecisionResult is produced, the repository is not
\* mutated and nothing is written to the main trace or the review queue.
C8_InvalidMentionRejected ==
    [][(result'.op = "make_decision" /\ InvalidName(result'.mention.name)) =>
        /\ result'.raised = "InvalidMention"
        /\ repo' = repo
        /\ trace' = trace
        /\ review' = review
      ]_vars

-----------------------------------------------------------------------------
(* Properties of the repository (specification SpecRepo) *)

\* C3: add with an ORCID another author owns fails and changes nothing, so
\* in every reachable state each ORCID is owned by at most one author and
\* the ORCID lookup returns that owner.
C3_OrcidOwnedOnce ==
    \A a \in DOMAIN id_index :
        id_index[a].orcid # NoOrcid =>
            /\ OrcidOwners(id_index[a].orcid) = {a}
            /\ DictGet(orcid_index, id_index[a].orcid, NoAuthor) = a

\* C4: after any sequence of add and update operations, every blocking key
\* generated from an author's current fields maps to a list containing
\* that author.
C4_BlockingIndexCurrent ==
    \A id \in DOMAIN id_index :
        \E affs \in FirstOfSet(id_index[id].affiliations, MaxAffilKeys),
           jrnls \in FirstOfSet(id_index[id].journals, MaxJournalKeys) :
            \A key \in Range(generate_blocking_keys(id_index[id], affs, jrnls)) :
                id \in Range(DictGet(blocking_key_index, key, <<>>))

\* C9: for max_candidates >= 1, if the mention has an ORCID and an author of
\* the repository has that ORCID, the author is in the returned list.
C9_OrcidOwnerIsCandidate ==
    (result.op = "get_candidates"
       /\ result.max_candidates >= 1
       /\ result.mention.orcid # NoOrcid) =>
        \A owner \in OrcidOwners(result.mention.orcid) :
            owner \in Range(result.candidates)

\* C10: the list returned by get_candidates holds no author_id twice and is
\* sorted by author_id in ascending order.
C10_CandidatesSortedUnique ==
    result.op = "get_candidates" =>
        \A i, j \in 1..Len(result.candidates) :
            i < j => result.candidates[i] < result.candidates[j]

\* C10 witness: get_candidates returned two authors of which the one with the
\* larger author_id was added to the repository first
C10_Witness ==
    /\ result.op = "get_candidates"
    /\ Len(result.candidates) >= 2
    /\ Len(authors) >= 2
    /\ authors[1] > authors[2]
    /\ authors[1] \in Range(result.candidates)
    /\ authors[2] \in Range(result.candidates)

-----------------------------------------------------------------------------
(* Further properties of the decision engine (specification Spec) *)

\* C13: among the candidates sharing the highest score the one with the
\* smallest author_id is listed first in topk and is the best author of a
\* MERGE; the scored list (topk holds all of it up to top_k entries) is ordered
\* by score descending and, among equal scores, by author_id ascending.
C13_TiesBySmallestId ==
    (Decided /\ CandidateIds(result.mention) # {}) =>
        LET topk == result.decision_result.topk
            first == MinId(TiedBest(result.mention))
        IN  /\ Len(topk) = Min(engine.topk, Cardinality(CandidateIds(result.mention)))
            /\ topk[1].author_id = first
            /\ result.decision_result.decision = "merge" =>
                   result.decision_result.best_author_id = first
            /\ \A i, j \in 1..Len(topk) :
                   i < j => \/ topk[i].score > topk[j].score
                            \/ /\ topk[i].score = topk[j].score
                               /\ topk[i].author_id < topk[j].author_id

\* C13 witness: a MERGE decided between two candidates with the same highest
\* score
C13_Witness ==
    /\ Decided
    /\ CandidateIds(result.mention) # {}
    /\ Cardinality(TiedBest(result.mention)) >= 2
    /\ result.decision_result.decision = "merge"
    /\ result.decision_result.best_author_id = MinId(TiedBest(result.mention))

\* C14: when candidate retrieval returns an empty list make_decision returns
\* NEW with score_total 0, no non-zero score component, an empty topk,
\* candidate_count 0 and no best_author_id.
C14_NoCandidatesIsNew ==
    (Decided /\ CandidateIds(result.mention) = {}) =>
        LET decision_result == result.decision_result
        IN  /\ decision_result.decision = "new"
            /\ decision_result.score_total = 0
            /\ \A k \in DOMAIN decision_result.score_components :
                   decision_result.score_components[k] = 0
            /\ decision_result.topk = <<>>
            /\ decision_result.candidate_count = 0
            /\ decision_result.best_author_id = NoAuthor

\* C14 witness: a named mention decided NEW because none of the authors of
\* the repository shares a blocking key with it
C14_Witness ==
    /\ Decided
    /\ authors # <<>>
    /\ ~InvalidName(result.mention.name)
    /\ CandidateIds(result.mention) = {}
    /\ result.decision_result.decision = "new"
    /\ result.decision_result.candidate_count = 0

-----------------------------------------------------------------------------
(* Properties of the repository with removals (specification SpecRemoval) *)

\* C12: after an author is removed from the repository no blocking key maps
\* to it any more, and no later get_candidates call returns it: blocking
\* keys and candidate lists hold only authors of the author list.
C12_RemovedNotIndexed ==
    /\ \A key \in DOMAIN blocking_key_index :
          Range(blocking_key_index[key]) \subseteq Range(authors)
    /\ result.op = "get_candidates" =>
          Range(result.candidates) \subseteq Range(authors)

-----------------------------------------------------------------------------
(* Properties of the trace logger (specifications SpecTrace, SpecFailing) *)

\* the record append_trace builds for the decision just returned
DecisionRecord == build_redacted_trace(result.decision_result, result.mention)

ReviewRecord(record) == [record |-> record, review_status |-> "pending"]

\* C15: for every decision handed to a trace logger with a review path, a
\* record with review_status "pending" is appended to the review queue iff the
\* decision is UNKNOWN: one record for every UNKNOWN, none for MERGE and NEW.
C15_ReviewIffUnknown ==
    [][(result'.op = "make_decision" /\ engine.review_path) =>
          IF result'.decision_result.decision = "unknown"
          THEN review' = Append(review, ReviewRecord(DecisionRecord'))
          ELSE review' = review]_vars

\* C16: when the write of the main-trace record or of the review record
\* fails, make_decision raises nothing and returns the DecisionResult it
\* returns when the writes succeed.
C16_WriteFailureKeepsDecision ==
    result.op = "make_decision" =>
        /\ result.raised = "none"
        /\ result.decision_result =
              make_decision(engine, blocking_key_index, id_index, result.mention)

\* C16 witness: an UNKNOWN decision returned although both writes failed and
\* neither file got a record
C16_Witness ==
    /\ result.op = "make_decision"
    /\ engine.trace_path
    /\ ~result.trace_ok
    /\ ~result.review_ok
    /\ result.raised = "none"
    /\ result.decision_result.decision = "unknown"
    /\ trace = <<>>
    /\ review = <<>>

\* C17: the records of the main trace are in the order of the decisions: each
\* decision's record is put after the records of all earlier decisions, which
\* stay as they are.
C17_TraceInDecisionOrder ==
    [][IF result'.op = "make_decision" /\ engine.trace_path
       THEN trace' = Append(trace, DecisionRecord')
       ELSE trace' = trace]_vars

\* C17 witness: the record of the second decision follows the different
\* record of the first
C17_Witness ==
    /\ result.op = "make_decision"
    /\ Len(trace) = 2
    /\ trace[1] # trace[2]
    /\ trace[2] = DecisionRecord

\* name occurs in text as a contiguous run of characters
Occurs(name, text) ==
    \E i \in 1..(Len(text) - Len(name) + 1) :
        SubSeq(text, i, i + Len(name) - 1) = name

\* the texts a record carries as they are (the hashes are not among them)
CleartextOf(record) == Range(record.blocking_keys) \cup {record.mention.orcid}

\* C18: the mention's name does not occur in cleartext in the line written to
\* the main trace or to the review queue; it is there only as its salted hash
\* and its structural features.
C18_NameNotInCleartext ==
    (/\ result.op = "make_decision"
     /\ engine.trace_path
     /\ ~InvalidName(result.mention.name)) =>
        /\ trace[Len(trace)] = DecisionRecord
        /\ trace[Len(trace)].mention.name = redact_name(result.mention.name)
        /\ \A text \in CleartextOf(trace[Len(trace)]) :
              ~Occurs(result.mention.name, text)
        /\ result.decision_result.decision = "unknown" =>
              \A text \in CleartextOf(review[Len(review)].record) :
                  ~Occurs(result.mention.name, text)

-----------------------------------------------------------------------------
(* Properties of DecisionResult values (specification SpecResult) *)

\* C19: at every point after a DecisionResult has been emitted, also after it
\* has been rebuilt from its dictionary form, its deterministic_hash equals
\* the hash recomputed from its current decision, score_total,
\* score_components, best_author_id, mode and thresholds.
C19_HashSelfConsistent ==
    Emitted =>
        result.decision_result.deterministic_hash =
            compute_deterministic_hash(result.decision_result)

-----------------------------------------------------------------------------
(* Properties of the engine's construction (specification SpecConfig) *)

\* the configuration rule: reject < accept, and in baseline mode
\* 0 <= reject < accept <= 1
ThresholdRule(cfg) ==
    /\ cfg.reject_threshold < cfg.accept_threshold
    /\ cfg.mode = "baseline" =>
          /\ 0 <= cfg.reject_threshold
          /\ cfg.accept_threshold <= BaselineOne

\* C20: constructing the engine fails whenever reject >= accept, in either
\* mode, and in baseline mode unless 0 <= reject < accept <= 1; an engine whose
\* thresholds break the rule never makes a decision.
C20_ThresholdsChecked ==
    /\ result.op = "new_engine" =>
          (result.raised = "none" => ThresholdRule(result.cfg))
    /\ result.op = "make_decision" => ThresholdRule(engine)

-----------------------------------------------------------------------------
(* Properties of the scorer (specification SpecScorer) *)

\* C21: for every weight configuration accepted at the scorer's construction
\* and every comparison vector with raw similarities in [0,1], the baseline
\* score_total lies in [0,1].
C21_BaselineScoreInUnitInterval ==
    result.op = "score_baseline" =>
        /\ 0 <= result.score
        /\ result.score <= BaselineOne

\* the best name similarity over the author's canonical and alternate names
BestNameSimilarity(name, author) ==
    LET sims == {calculate_name_similarity(name, n) :
                   n \in {author.canonical_name} \cup author.alternate_names}
    IN  CHOOSE m \in sims : \A x \in sims : x <= m

\* C22: the raw name similarity of a (mention, candidate) pair is the maximum
\* of the name similarity over the candidate's canonical name and all its
\* alternate names, so a mention named like an alternate name gets 1.0.
C22_NameSimilarityOverAlternates ==
    (result.op = "compute_comparisons" /\ result.mention.name # EmptyStr) =>
        result.comparisons.name_sim =
            BestNameSimilarity(result.mention.name, id_index[result.author_id])

-----------------------------------------------------------------------------
(* Further properties of the repository (specification SpecRepo) *)

\* C23: every merge into an author leaves the author's confidence equal to
\* min(its previous confidence, 0.95): the confidence never increases and is
\* at most 0.95 once the author has received a merge.
C23_MergeCapsConfidence ==
    [][result'.op = "update_author" =>
          /\ id_index'[result'.author_id].confidence_score =
                Min(id_index[result'.author_id].confidence_score, ConfidenceCap)
          /\ id_index'[result'.author_id].confidence_score <= ConfidenceCap]_vars

-----------------------------------------------------------------------------
(* disambiguation_engine.dependency_graph.DependencyGraph *)

\* co-authorships recorded in the graph at one time
MaxStrength == 2

NodeIds == {<<"a">>, <<"b">>, <<"c">>}

\* DependencyGraph(): a graph without nodes (full_scan_threshold is 0)
NewGraph ==
    [graph |-> EmptyDict,
     authors |-> {},
     collaboration_strength |-> EmptyDict,
     influence_cache |-> EmptyDict]

\* f"{start_author_id}_{max_depth}"
cache_key(start_author_id, max_depth) ==
    start_author_id \o <<"_", ToString(max_depth)>>

\* tuple(sorted([author_id_1, author_id_2])): one key for the unordered pair
edge_key(author_id_1, author_id_2) == {author_id_1, author_id_2}

\* _clear_influence_cache: drops every cached entry whose key contains one of
\* the ids as a substring
clear_influence_cache(g, author_ids) ==
    LET kept == {key \in DOMAIN g.influence_cache :
                    ~\E author_id \in author_ids : Occurs(author_id, key)}
    IN  [g EXCEPT !.influence_cache = [key \in kept |-> g.influence_cache[key]]]

add_author(g, author_id) ==
    IF author_id # EmptyStr /\ author_id \notin g.authors
    THEN [g EXCEPT !.authors = @ \cup {author_id},
                   !.graph = IF author_id \in DOMAIN @ THEN @
                             ELSE DictPut(@, author_id, {})]
    ELSE g

\* the two set additions and the strength update, after both nodes exist
add_edge(g, author_id_1, author_id_2, weight) ==
    [g EXCEPT !.graph = [@ EXCEPT ![author_id_1] = @ \cup {author_id_2},
                                  ![author_id_2] = @ \cup {author_id_1}],
              !.collaboration_strength =
                  DictPut(@, edge_key(author_id_1, author_id_2),
                          DictGet(@, edge_key(author_id_1, author_id_2), 0) + weight)]

add_coauthor_relationship(g, author_id_1, author_id_2, weight) ==
    IF author_id_1 = EmptyStr \/ author_id_2 = EmptyStr \/ author_id_1 = author_id_2
    THEN g
    ELSE clear_influence_cache(
             add_edge(add_author(add_author(g, author_id_1), author_id_2),
                      author_id_1, author_id_2, weight),
             {author_id_1, author_id_2})

\* a removal that deletes the node and leaves its neighbours' sets alone
RemoveNodeOnly(g, author_id) ==
    IF author_id \notin g.authors THEN g
    ELSE [g EXCEPT !.graph = [n \in DOMAIN @ \ {author_id} |-> @[n]],
                   !.authors = @ \ {author_id}]

remove_author(g, author_id) ==
    IF author_id \notin g.authors THEN g
    ELSE LET neighbors == g.graph[author_id]
             edges == {edge_key(author_id, n) : n \in neighbors}
         IN  clear_influence_cache(
                 [g EXCEPT !.graph = [n \in DOMAIN @ \ {author_id} |->
                                         IF n \in neighbors THEN @[n] \ {author_id}
                                         ELSE @[n]],
                           !.collaboration_strength =
                               [e \in DOMAIN @ \ edges |-> @[e]],
                           !.authors = @ \ {author_id}],
                 {author_id} \cup neighbors)

\* the queue loop of _get_authors_within_depth; queue entries are
\* <<author_id, depth>>
RECURSIVE bfs(_, _, _, _)
bfs(graph, queue, visited, max_depth) ==
    IF queue = <<>> THEN visited
    ELSE IF Head(queue)[1] \in visited \/ Head(queue)[2] > max_depth
    THEN bfs(graph, Tail(queue), visited, max_depth)
    ELSE bfs(graph,
             IF Head(queue)[2] < max_depth
             THEN Tail(queue) \o
                  [i \in 1..Cardinality(DictGet(graph, Head(queue)[1], {}) \
                                          (visited \cup {Head(queue)[1]})) |->
                     <<SetToSeq(DictGet(graph, Head(queue)[1], {}) \
                                  (visited \cup {Head(queue)[1]}))[i],
                       Head(queue)[2] + 1>>]
             ELSE Tail(queue),
             visited \cup {Head(queue)[1]},
             max_depth)

\* _get_authors_within_depth, with _cache_influence_result (the cache holds
\* fewer than cache_max_size = 1000 entries here, so nothing is evicted);
\* returns the graph object and the authors found
get_authors_within_depth(g, start_author_id, max_depth) ==
    IF start_author_id \notin g.authors \/ max_depth <= 0
    THEN [g |-> g, within |-> {}]
    ELSE IF cache_key(start_author_id, max_depth) \in DOMAIN g.influence_cache
    THEN [g |-> g,
          within |-> g.influence_cache[cache_key(start_author_id, max_depth)]]
    ELSE [g |-> [g EXCEPT !.influence_cache =
                    DictPut(@, cache_key(start_author_id, max_depth),
                            bfs(g.graph, << <<start_author_id, 0>> >>, {}, max_depth))],
          within |-> bfs(g.graph, << <<start_author_id, 0>> >>, {}, max_depth)]

\* the loop of get_affected_authors over the directly affected authors
RECURSIVE affected_from(_, _, _, _)
affected_from(g, todo, affected, max_depth) ==
    IF todo = <<>> THEN [g |-> g, affected |-> affected]
    ELSE affected_from(get_authors_within_depth(g, Head(todo), max_depth).g,
                       Tail(todo),
                       affected \cup
                           get_authors_within_depth(g, Head(todo), max_depth).within,
                       max_depth)

\* get_affected_authors(new_publication=P, max_depth=d), coauthor_ids being
\* set(P.coauthor_ids); results of more than 1000 authors do not arise here
get_affected_authors(g, coauthor_ids, max_depth) ==
    affected_from(g, SetToSeq(coauthor_ids), coauthor_ids, max_depth)

GraphAddAuthor(author_id) ==
    /\ engine.mode = "graph"
    /\ engine' = [engine EXCEPT !.dependency_graph = add_author(@, author_id)]
    /\ result' = [op |-> "add_author_node", author_id |-> author_id]
    /\ UNCHANGED <<repo, trace, review>>

AddCoauthorRelationship(author_id_1, author_id_2) ==
    /\ engine.mode = "graph"
    /\ SumValues(engine.dependency_graph.collaboration_strength) < MaxStrength
    /\ engine' = [engine EXCEPT !.dependency_graph =
                     add_coauthor_relationship(@, author_id_1, author_id_2, 1)]
    /\ result' = [op |-> "add_coauthor_relationship",
                  author_id_1 |-> author_id_1, author_id_2 |-> author_id_2]
    /\ UNCHANGED <<repo, trace, review>>

GraphRemoveAuthor(author_id) ==
    /\ engine.mode = "graph"
    /\ engine' = [engine EXCEPT !.dependency_graph = remove_author(@, author_id)]
    /\ result' = [op |-> "remove_author_node", author_id |-> author_id,
                  neighbors |-> DictGet(engine.dependency_graph.graph, author_id, {})]
    /\ UNCHANGED <<repo, trace, review>>

GetAffectedAuthors(coauthor_ids, max_depth) ==
    /\ engine.mode = "graph"
    /\ engine' = [engine EXCEPT !.dependency_graph =
                     get_affected_authors(@, coauthor_ids, max_depth).g]
    /\ result' = [op |-> "get_affected_authors",
                  coauthor_ids |-> coauthor_ids, max_depth |-> max_depth,
                  affected |-> get_affected_authors(engine.dependency_graph,
                                                    coauthor_ids, max_depth).affected]
    /\ UNCHANGED <<repo, trace, review>>

InitGraph ==
    /\ InitRepository
    /\ engine = [mode |-> "graph", dependency_graph |-> NewGraph]

\* the operations of the co-authorship graph; the depths are 0 and the depth
\* the engine asks for (2, also the default)
NextGraph ==
    \/ \E author_id \in NodeIds \cup {EmptyStr} : GraphAddAuthor(author_id)
    \/ \E author_id_1, author_id_2 \in NodeIds \cup {EmptyStr} :
          AddCoauthorRelationship(author_id_1, author_id_2)
    \/ \E author_id \in NodeIds : GraphRemoveAuthor(author_id)
    \/ \E coauthor_ids \in SUBSET NodeIds, max_depth \in {0, 2} :
          GetAffectedAuthors(coauthor_ids, max_depth)

SpecGraph == InitGraph /\ [][NextGraph]_vars

-----------------------------------------------------------------------------
(* Properties of the co-authorship graph (specification SpecGraph) *)

\* C25: after any sequence of add_author, add_coauthor_relationship and
\* remove_author calls the graph is symmetric and closed: b is a neighbour of
\* a iff a is a neighbour of b, every neighbour is a current node, and no node
\* is its own neighbour.
C25_GraphSymmetricAndClosed ==
    engine.mode = "graph" =>
        \A a \in DOMAIN engine.dependency_graph.graph :
            /\ a \notin engine.dependency_graph.graph[a]
            /\ \A b \in engine.dependency_graph.graph[a] :
                  /\ b \in engine.dependency_graph.authors
                  /\ b \in DOMAIN engine.dependency_graph.graph
                  /\ a \in engine.dependency_graph.graph[b]

\* a node with a neighbour was removed and two of the remaining nodes are
\* still neighbours
C25_Witness ==
    /\ result.op = "remove_author_node"
    /\ result.neighbors # {}
    /\ result.author_id \notin engine.dependency_graph.authors
    /\ \E a \in engine.dependency_graph.authors :
          engine.dependency_graph.graph[a] # {}

\* the authors within max_depth co-authorship hops of the authors in S
RECURSIVE WithinHops(_, _, _)
WithinHops(graph, S, max_depth) ==
    IF max_depth <= 0 THEN S
    ELSE WithinHops(graph, S \cup UNION {DictGet(graph, n, {}) : n \in S},
                    max_depth - 1)

\* C26: get_affected_authors(new_publication=P, max_depth=d) returns exactly
\* P's coauthor ids together with every author within d hops of one of them in
\* the graph as it is at the time of the call, whatever queries, edge additions
\* and node removals came before.
C26_AffectedIsNeighbourhood ==
    result.op = "get_affected_authors" =>
        result.affected =
            result.coauthor_ids \cup
                WithinHops(engine.dependency_graph.graph,
                           result.coauthor_ids \cap engine.dependency_graph.authors,
                           result.max_depth)

-----------------------------------------------------------------------------
(* disambiguation_engine.engine.DisambiguationEngine (the legacy engine) *)

\* calls of process_new_record on one engine
MaxCalls == 3

\* records as the callers build them: two of one author without coauthors, one
\* of another author who names the first as coauthor, and one without a name
LegacyRecords ==
    {[record_id |-> "R1", name |-> NameJS, coauthors |-> <<>>,
      journal |-> <<"N">>, affiliation |-> NoValue,
      processed |-> FALSE, matched_author_id |-> NoValue],
     [record_id |-> "R2", name |-> NameJS, coauthors |-> <<>>,
      journal |-> <<"N">>, affiliation |-> NoValue,
      processed |-> FALSE, matched_author_id |-> NoValue],
     [record_id |-> "R3", name |-> NameAS, coauthors |-> <<NameJS>>,
      journal |-> <<"C">>, affiliation |-> NoValue,
      processed |-> FALSE, matched_author_id |-> NoValue],
     [record_id |-> "R4", name |-> NameBlank, coauthors |-> <<>>,
      journal |-> NoValue, affiliation |-> NoValue,
      processed |-> FALSE, matched_author_id |-> NoValue]}

\* DisambiguationEngine(): similarity_threshold 0.85, default weights, no
\* authors; calls counts the calls of process_new_record made so far (history);
\* processing_time_total, a wall-clock sum, is left out of stats
NewLegacyEngine ==
    [mode |-> "legacy",
     similarity_threshold |-> (85 * BaselineOne) \div 100,
     authors |-> EmptyDict,
     dependency_graph |-> NewGraph,
     processed_records |-> EmptyDict,
     stats |-> [total_processed |-> 0, merged_records |-> 0,
                new_authors_created |-> 0, rejected_records |-> 0,
                error_count |-> 0, warning_count |-> 0],
     calls |-> 0]

\* a validation that accepts a record whose id was processed before
ValidateWithoutDuplicateCheck(e, record) ==
    IF record.record_id = "" THEN "invalid_record"
    ELSE IF record.name = EmptyStr \/ Strip(record.name) = EmptyStr
    THEN "invalid_record"
    ELSE "ok"

\* _validate_record: "ok", or the error type of the InvalidRecordError raised
validate_record(e, record) ==
    IF record.record_id = "" THEN "invalid_record"
    ELSE IF record.name = EmptyStr \/ Strip(record.name) = EmptyStr
    THEN "invalid_record"
    ELSE IF record.record_id \in DOMAIN e.processed_records
    THEN "invalid_record"
    ELSE "ok"

record_to_temp_author(record) ==
    [NewAuthor("temp", record.name, NoOrcid) EXCEPT
        !.coauthor_ids = Range(record.coauthors),
        !.journals = IF record.journal # NoValue THEN {record.journal} ELSE {},
        !.affiliations = IF record.affiliation # NoValue
                         THEN {record.affiliation} ELSE {}]

\* SimilarityScorer.calculate_weighted_similarity with the default weights
calculate_weighted_similarity(record_a, record_b) ==
    WeightName * calculate_name_similarity(record_a.canonical_name,
                                           record_b.canonical_name)
    + WeightCoauthors * calculate_jaccard_similarity(record_a.coauthor_ids,
                                                     record_b.coauthor_ids)
    + WeightJournals * calculate_jaccard_similarity(record_a.journals,
                                                    record_b.journals)

\* _identify_affected_scope: the graph finds no potential matches for a record
\* (full_scan_threshold is 0), so every existing author is a candidate; the
\* limit max_affected_authors (100) is not reached
identify_affected_scope(e) == DOMAIN e.authors

\* _calculate_similarities and _make_disambiguation_decision: the results the
\* call can produce. The candidates are iterated in set order and sorted by
\* score with a stable sort, so any candidate of the highest score can be first.
make_disambiguation_decision(e, record) ==
    IF identify_affected_scope(e) = {}
    THEN {[decision |-> "new_author", matched_author_id |-> NoValue,
           similarity_score |-> 0]}
    ELSE {[decision |-> IF calculate_weighted_similarity(
                               record_to_temp_author(record), e.authors[best])
                             >= e.similarity_threshold
                        THEN "merged" ELSE "new_author",
           matched_author_id |->
                        IF calculate_weighted_similarity(
                               record_to_temp_author(record), e.authors[best])
                             >= e.similarity_threshold
                        THEN best ELSE NoValue,
           similarity_score |-> calculate_weighted_similarity(
                                    record_to_temp_author(record), e.authors[best])] :
            best \in {a \in identify_affected_scope(e) :
                        \A other \in identify_affected_scope(e) :
                            calculate_weighted_similarity(
                                record_to_temp_author(record), e.authors[other])
                            <= calculate_weighted_similarity(
                                record_to_temp_author(record), e.authors[a])}}

\* an author made from a record and never linked to it
CreateAuthorUnlinked(record, author_id) ==
    NewAuthor(author_id,
              IF record.name # EmptyStr THEN Strip(record.name)
              ELSE <<"U", "n", "k", "n", "o", "w", "n">>,
              NoOrcid)

\* create_author_from_record; author_id stands for f"au_{uuid4().hex[:8]}"
create_author_from_record(record, author_id) ==
    merge_with_record(NewAuthor(author_id,
                                IF record.name # EmptyStr THEN Strip(record.name)
                                ELSE <<"U", "n", "k", "n", "o", "w", "n">>,
                                NoOrcid),
                      record)

\* _find_authors_by_name, as a list in the order of the authors dict
find_authors_by_name(engine_authors, name) ==
    SetToSeq({author_id \in DOMAIN engine_authors :
                \/ Lower(Strip(engine_authors[author_id].canonical_name)) = Lower(Strip(name))
                \/ \E alt_name \in engine_authors[author_id].alternate_names :
                      Lower(Strip(alt_name)) = Lower(Strip(name))})

\* the inner loop of _update_collaboration_relationships
RECURSIVE add_relationships(_, _, _)
add_relationships(g, author_id, coauthor_ids) ==
    IF coauthor_ids = <<>> THEN g
    ELSE add_relationships(IF Head(coauthor_ids) # author_id
                           THEN add_coauthor_relationship(g, author_id,
                                                          Head(coauthor_ids), 1)
                           ELSE g,
                           author_id, Tail(coauthor_ids))

\* _update_collaboration_relationships: the graph after the loop over
\* record.coauthors
RECURSIVE update_collaboration_relationships(_, _, _, _)
update_collaboration_relationships(g, engine_authors, coauthors, author_id) ==
    IF coauthors = <<>> THEN g
    ELSE update_collaboration_relationships(
             add_relationships(g, author_id,
                               find_authors_by_name(engine_authors, Head(coauthors))),
             engine_authors, Tail(coauthors), author_id)

\* _update_data_structures; author_id is the matched author of a merge or the
\* id of the author created. merge_with_record also marks the record object,
\* which is the one kept in processed_records.
update_data_structures(e, record, decision, author_id) ==
    [e EXCEPT
        !.authors = IF decision = "merged"
                    THEN [@ EXCEPT ![author_id] = merge_with_record(@, record)]
                    ELSE DictPut(@, author_id,
                                 create_author_from_record(record, author_id)),
        !.dependency_graph =
            update_collaboration_relationships(
                IF decision = "merged" THEN @ ELSE add_author(@, author_id),
                IF decision = "merged"
                THEN [e.authors EXCEPT ![author_id] = merge_with_record(@, record)]
                ELSE DictPut(e.authors, author_id,
                             create_author_from_record(record, author_id)),
                record.coauthors, author_id),
        !.processed_records =
            DictPut(@, record.record_id,
                    [record EXCEPT !.processed = TRUE,
                                   !.matched_author_id = author_id])]

update_statistics(e, decision) ==
    [e EXCEPT
        !.stats.total_processed = @ + 1,
        !.stats.merged_records = IF decision = "merged" THEN @ + 1 ELSE @,
        !.stats.new_authors_created = IF decision = "new_author" THEN @ + 1 ELSE @,
        !.stats.rejected_records = IF decision = "rejected" THEN @ + 1 ELSE @]

\* process_new_record(record): the InvalidRecordError path counts an error and
\* returns _create_error_result; otherwise the four steps and the statistics
ProcessNewRecord(record) ==
    /\ engine.mode = "legacy"
    /\ engine.calls < MaxCalls
    /\ IF validate_record(engine, record) # "ok"
       THEN /\ engine' = [engine EXCEPT !.stats.error_count = @ + 1,
                                        !.calls = @ + 1]
            /\ result' = [op |-> "process_new_record", record |-> record,
                          decision |-> "rejected", matched_author_id |-> NoValue,
                          similarity_score |-> 0,
                          error_type |-> validate_record(engine, record)]
       ELSE \E d \in make_disambiguation_decision(engine, record) :
            \E author_id \in IF d.decision = "merged" THEN {d.matched_author_id}
                             ELSE NodeIds \ DOMAIN engine.authors :
               /\ engine' = [update_statistics(
                                 update_data_structures(engine, record,
                                                        d.decision, author_id),
                                 d.decision)
                             EXCEPT !.calls = @ + 1]
               /\ result' = [op |-> "process_new_record", record |-> record,
                             decision |-> d.decision,
                             matched_author_id |-> author_id,
                             similarity_score |-> d.similarity_score,
                             error_type |-> "none"]
    /\ UNCHANGED <<repo, trace, review>>

InitLegacy ==
    /\ InitRepository
    /\ engine = NewLegacyEngine

NextLegacy == \E record \in LegacyRecords : ProcessNewRecord(record)

SpecLegacy == InitLegacy /\ [][NextLegacy]_vars

-----------------------------------------------------------------------------
(* Properties of the legacy engine (specification SpecLegacy) *)

\* C24: after any sequence of process_new_record calls, total_processed equals
\* the number of calls made and equals merged_records + new_authors_created +
\* rejected_records.
C24_TotalProcessedCountsCalls ==
    engine.mode = "legacy" =>
        /\ engine.stats.total_processed = engine.calls
        /\ engine.stats.total_processed =
              engine.stats.merged_records + engine.stats.new_authors_created
              + engine.stats.rejected_records

\* C27: process_new_record with a record whose record_id has already been
\* processed returns decision 'rejected' and leaves the engine's authors,
\* dependency graph and processed records unchanged.
C27_DuplicateRecordRejected ==
    [][(result'.op = "process_new_record"
        /\ result'.record.record_id \in DOMAIN engine.processed_records) =>
          /\ result'.decision = "rejected"
          /\ engine'.authors = engine.authors
          /\ engine'.dependency_graph = engine.dependency_graph
          /\ engine'.processed_records = engine.processed_records]_vars

\* a processed record was submitted again while the engine holds two authors
\* joined in the graph
C27_Witness ==
    /\ result.op = "process_new_record"
    /\ result.decision = "rejected"
    /\ result.record.record_id \in DOMAIN engine.processed_records
    /\ \E a \in DOMAIN engine.dependency_graph.graph :
          engine.dependency_graph.graph[a] # {}

\* C28: every record that received decision 'merged' or 'new_author' has its
\* record_id in the linked_records of exactly one author of the engine, and
\* that author's id is the matched_author_id of the record's result (which
\* the engine keeps on the processed record).
C28_RecordLinkedToOneAuthor ==
    engine.mode = "legacy" =>
        /\ \A rid \in DOMAIN engine.processed_records :
              {a \in DOMAIN engine.authors :
                  rid \in engine.authors[a].linked_records}
              = {engine.processed_records[rid].matched_author_id}
        /\ (result.op = "process_new_record"
            /\ result.decision \in {"merged", "new_author"}) =>
              /\ result.record.record_id \in DOMAIN engine.processed_records
              /\ engine.processed_records[result.record.record_id].matched_author_id
                    = result.matched_author_id

\* a record was merged into an author that another record created, and a
\* third record made a second author
C28_Witness ==
    /\ result.op = "process_new_record"
    /\ result.decision = "merged"
    /\ Cardinality(DOMAIN engine.authors) = 2
    /\ Cardinality(engine.authors[result.matched_author_id].linked_records) = 2

-----------------------------------------------------------------------------
(* Properties of the decision's blocking keys (specification Spec) *)

\* the keys get_candidates looks up in blocking_key_index for the mention
looked_up_keys(mention) ==
    (IF mention.orcid # NoOrcid THEN << <<"orcid:">> \o mention.orcid >> ELSE <<>>)
    \o (IF mention.name # EmptyStr /\ extract_surname(mention.name) # EmptyStr
        THEN << <<"surname:">> \o Lower(extract_surname(mention.name)) >>
        ELSE <<>>)
    \o (IF mention.name # EmptyStr /\ extract_surname_initial(mention.name) # EmptyStr
        THEN << <<"surname_init:">> \o extract_surname_initial(mention.name) >>
        ELSE <<>>)
    \o (IF Prefix(mention.affiliation, 1) # <<>>
           /\ Prefix(mention.affiliation, 1)[1] # EmptyStr
        THEN <<AffilKey(Prefix(mention.affiliation, 1)[1])>>
        ELSE <<>>)

\* C29: the blocking_keys listed in a DecisionResult are exactly the keys the
\* repository looked up to retrieve the mention's candidates, with the same
\* tags and the same values.
C29_BlockingKeysAreLookedUpKeys ==
    (result.op = "make_decision" /\ result.raised = "none") =>
        Range(result.decision_result.blocking_keys) =
            Range(looked_up_keys(result.mention))

-----------------------------------------------------------------------------
(* integrations.crossref_client.CrossrefClient.get_work_by_doi *)

\* calls of get_work_by_doi on one client
MaxLookups == 3

\* self.max_retries
MaxRetries == 3

\* self.base_delay, in half seconds
BaseDelay == 1

\* doi.replace('https://doi.org/', '').replace('http://dx.doi.org/', '').strip();
\* a DOI is a sequence of characters in which a URL prefix is one element
clean_doi(doi) ==
    Strip(SelectSeq(doi, LAMBDA c : c \notin {"https://doi.org/", "http://dx.doi.org/"}))

\* an error is the set of the markers its lower-cased message contains
is_retryable(error) ==
    error \cap {"429", "503", "504", "rate limit", "temporarily"} # {}

\* the call: the DOI is cleaned and the loop starts with attempt 0
GetWorkByDoi(doi) ==
    /\ engine.mode = "crossref"
    /\ engine.pc = "idle"
    /\ engine.lookups < MaxLookups
    /\ engine' = [engine EXCEPT !.pc = "attempt", !.doi = clean_doi(doi),
                                !.attempt = 0, !.lookups = @ + 1]
    /\ result' = [op |-> "call_get_work_by_doi", doi |-> doi]
    /\ UNCHANGED <<repo, trace, review>>

\* one pass of the loop body up to its return or its sleep: works.doi answers
\* with a work, with nothing, or raises
CallWorksDoi(outcome) ==
    /\ engine.mode = "crossref"
    /\ engine.pc = "attempt"
    /\ IF outcome.kind = "error" /\ is_retryable(outcome.error)
          /\ engine.attempt < MaxRetries - 1
       THEN /\ engine' = [engine EXCEPT !.pc = "sleep", !.last = outcome]
            /\ result' = [op |-> "sleep", doi |-> engine.doi,
                          delay |-> BaseDelay * 2 ^ engine.attempt]
       ELSE /\ engine' = [engine EXCEPT !.pc = "idle", !.last = outcome]
            /\ result' = [op |-> "get_work_by_doi", doi |-> engine.doi,
                          returned |-> IF outcome.kind = "work" THEN "work"
                                       ELSE "none",
                          attempts |-> engine.attempt + 1,
                          last |-> outcome]
    /\ UNCHANGED <<repo, trace, review>>

\* after time.sleep the loop body goes on to its last statement, the
\* return None that stands inside the for loop
ReturnAfterSleep ==
    /\ engine.mode = "crossref"
    /\ engine.pc = "sleep"
    /\ engine' = [engine EXCEPT !.pc = "idle"]
    /\ result' = [op |-> "get_work_by_doi", doi |-> engine.doi,
                  returned |-> "none", attempts |-> engine.attempt + 1,
                  last |-> engine.last]
    /\ UNCHANGED <<repo, trace, review>>

InitCrossref ==
    /\ InitRepository
    /\ engine = [mode |-> "crossref", pc |-> "idle", doi |-> EmptyStr,
                 attempt |-> 0, lookups |-> 0, last |-> [kind |-> "none"]]

NextCrossref ==
    \/ \E doi \in {<<"1", "0">>, <<"https://doi.org/", "1", "0">>,
                   <<"http://dx.doi.org/", "1", "1">>, <<" ", "1", "2">>} :
          GetWorkByDoi(doi)
    \/ \E outcome \in {[kind |-> "work"], [kind |-> "not_found"]}
                      \cup {[kind |-> "error", error |-> e] :
                              e \in {{"503"}, {"temporarily"}, {"404"}, {}}} :
          CallWorksDoi(outcome)
    \/ ReturnAfterSleep

SpecCrossref == InitCrossref /\ [][NextCrossref]_vars

-----------------------------------------------------------------------------
(* Properties of the Crossref client (specification SpecCrossref) *)

\* C30: get_work_by_doi makes up to max_retries attempts for one DOI; after
\* a retryable failure that is not the last attempt another attempt follows,
\* so None is returned only after a not-found result, a non-retryable error,
\* or the failure of the last attempt.
C30_NoneOnlyAfterLastAttempt ==
    (result.op = "get_work_by_doi" /\ result.returned = "none") =>
        /\ result.attempts <= MaxRetries
        /\ \/ result.last.kind = "not_found"
           \/ result.last.kind = "error" /\ ~is_retryable(result.last.error)
           \/ result.last.kind = "error" /\ result.attempts = MaxRetries

====
